---- MODULE Spec2Model ----
(***************************************************************************)
(* Model of the model-selection strategies (my_model_selectors.py) and of  *)
(* the recognizer (my_recognizer.py).                                      *)
(*                                                                         *)
(* The Trainer/Scorer (hmmlearn's GaussianHMM) is the environment: which   *)
(* complexities can be fitted is fixed when a run starts (fitOK), and the  *)
(* answer of every score() call is chosen when the call is made and        *)
(* recorded in a log, so that the properties can be stated over what the   *)
(* Trainer/Scorer actually answered.                                       *)
(*                                                                         *)
(* Log-likelihoods are floats in the program; here they are integers of a  *)
(* small set, and every derived quantity (BIC, DIC, the CV average) is an  *)
(* exact rational [num, den], compared by cross multiplication.            *)
(***************************************************************************)
EXTENDS Integers, Sequences, FiniteSets

\* ------------------------------------------------------------------ bounds

\* Complexities range over MinN..MaxN; min_n_components, max_n_components and
\* n_constant are drawn from it.
MinN == 2
MaxN == 4
\* len(self.lengths): the number of training sequences of the word, 1..MaxD.
MaxD == 3
\* len(self.hwords): the number of words of the word map, 1..MaxWords.
MaxWords == 2
\* recognize(): the models of the mapping, 0..MaxModels, and the test items,
\* 0..MaxItems.
MaxModels == 2
MaxItems == 2

\* The log-likelihoods a score() call may answer, and those it may answer
\* inside the loops that score several times for one complexity (the other
\* words of SelectorDIC, the folds of SelectorCV).
Scores == {-3, 0, 3}
RunScores == {-3, 3}

\* The word labels, in the iteration order of the dictionaries.
WordNames == <<"CAT", "DOG", "FISH", "BIRD">>

\* ------------------------------------------------------- values of the code

\* None, and the fitted model of a complexity (an opaque handle).
None == [fitted |-> FALSE, n |-> 0]
Model(n) == [fitted |-> TRUE, n |-> n]

\* Exact numbers: a finite rational num/den (den > 0), or float('inf') and
\* -float('inf').
Fin(num, den) == [k |-> "fin", num |-> num, den |-> den]
PosInf == [k |-> "+inf", num |-> 0, den |-> 1]
NegInf == [k |-> "-inf", num |-> 0, den |-> 1]

\* a < b on these numbers.
RLt(a, b) ==
    CASE a.k = "+inf" -> FALSE
      [] b.k = "-inf" -> FALSE
      [] a.k = "-inf" -> TRUE
      [] b.k = "+inf" -> TRUE
      [] OTHER -> a.num * b.den < b.num * a.den

\* a > b.
RGt(a, b) == RLt(b, a)

\* An answer of a score() call: a log-likelihood, a failure (an exception), or
\* no call at all.
Ok(v) == [st |-> "ok", v |-> v]
ScoreFailure == [st |-> "fail", v |-> 0]
NotAsked == [st |-> "none", v |-> 0]
ScoreAnswers == {Ok(v) : v \in Scores} \cup {ScoreFailure}
RunAnswers == {Ok(v) : v \in RunScores} \cup {ScoreFailure}

VARIABLES
    op,                 \* the operation of this run
    pc,                 \* "loop", "done" (returned) or "raised"
    fitOK,              \* the complexities GaussianHMM(...).fit succeeds for
    min_n_components, max_n_components, n_constant,
    lengths,            \* len(self.lengths)
    hwords,             \* the words of self.hwords, in order
    this_word,
    number_of_states,   \* the loop variable of select()
    best_model, best_score,
    average_score,      \* SelectorCV: the average of the last complexity done
    log,                \* complexity -> what the Scorer answered for it
    result,             \* the value select() returned
    models,             \* recognize(): the words of the mapping, in order
    n_items,            \* recognize(): the number of test items
    answers,            \* recognize(): per item done, word -> Scorer's answer
    probabilities, guesses

selectorVars == <<fitOK, min_n_components, max_n_components, n_constant,
                  lengths, hwords, this_word, number_of_states, best_model,
                  best_score, average_score, log, result>>
recognizerVars == <<models, n_items, answers, probabilities, guesses>>

vars == <<op, pc, selectorVars, recognizerVars>>

Complexities == MinN..MaxN

\* ------------------------------------------------------------ ModelSelector

\* A base_model that hands back a model whether or not fitting raised.
base_model_NoFailure(num_states) == Model(num_states)

\* base_model(num_states): the fitted model, or None when fitting raises.
base_model(num_states) ==
    IF num_states \in fitOK THEN Model(num_states) ELSE None

\* An "except ValueError:" in place of the bare "except:".
Catches_ValueErrorOnly(exc) == exc = "ValueError"

\* A bare "except:" catches every exception.
Catches(exc) == exc \in {"AttributeError", "ValueError", "ZeroDivisionError"}

\* What current_model.score(...) can do: raise AttributeError on None (no
\* call reaches the Scorer), else one of the Scorer's answers.
ScoreCall(current_model) ==
    IF current_model = None THEN {NotAsked} ELSE ScoreAnswers

\* The exception of a score call with answer a on current_model, or "none".
ScoreExc(current_model, a) ==
    IF current_model = None THEN "AttributeError"
    ELSE IF a.st = "fail" THEN "ValueError"
    ELSE "none"

\* ---------------------------------------------------------- SelectorConstant

ConstantSelect ==
    /\ op = "Constant" /\ pc = "loop"
    /\ result' = base_model(n_constant)
    /\ pc' = "done"
    /\ UNCHANGED <<op, fitOK, min_n_components, max_n_components, n_constant,
                   lengths, hwords, this_word, number_of_states, best_model,
                   best_score, average_score, log, recognizerVars>>

\* --------------------------------------------------------------- SelectorBIC

\* np.log(d) in thousandths.
LnMilli(d) == <<0, 693, 1099, 1386, 1609, 1792>>[d]

\* A BIC without the penalty term.
BICScore_NoPenalty(n, L, d) == Fin(-2 * L * 1000, 1000)

\* p = n**2 + 2*n*d - 1; bic = -2*L + p*np.log(d).
BICScore(n, L, d) ==
    LET p == n * n + 2 * n * d - 1
    IN  Fin(-2 * L * 1000 + p * LnMilli(d), 1000)

\* if bic < best_score
BICImproves(bic, best) == RLt(bic, best)

BICIter ==
    /\ op = "BIC" /\ pc = "loop"
    /\ number_of_states <= max_n_components
    /\ LET n == number_of_states
           current_model == base_model(n)
       IN  \E a \in ScoreCall(current_model) :
             LET exc == ScoreExc(current_model, a)
                 bic == BICScore(n, a.v, lengths)
             IN  /\ log' = [log EXCEPT ![n] = [self |-> a, more |-> <<>>]]
                 /\ IF exc = "none"
                    THEN /\ pc' = "loop"
                         /\ IF BICImproves(bic, best_score)
                            THEN /\ best_score' = bic
                                 /\ best_model' = current_model
                            ELSE UNCHANGED <<best_score, best_model>>
                    ELSE /\ pc' = IF Catches(exc) THEN "loop" ELSE "raised"
                         /\ UNCHANGED <<best_score, best_model>>
    /\ number_of_states' = number_of_states + 1
    /\ UNCHANGED <<op, fitOK, min_n_components, max_n_components, n_constant,
                   lengths, hwords, this_word, average_score, result,
                   recognizerVars>>

\* --------------------------------------------------------------- SelectorDIC

\* The answers of up to k score() calls in a row, the run ending at the first
\* failure: the exception leaves the loop.
AnswerRuns(k) ==
    { s \in UNION { [1..m -> RunAnswers] : m \in 0..k } :
        /\ \A i \in 1..(Len(s) - 1) : s[i].st = "ok"
        /\ Len(s) < k => (Len(s) >= 1 /\ s[Len(s)].st = "fail") }

\* The run raised.
RunFailed(s) == Len(s) >= 1 /\ s[Len(s)].st = "fail"

\* The sum of the log-likelihoods a run answered.
RECURSIVE SumOk(_)
SumOk(s) ==
    IF s = <<>> THEN 0
    ELSE (IF s[1].st = "ok" THEN s[1].v ELSE 0) + SumOk(Tail(s))

\* The number of log-likelihoods a run answered.
CountOk(s) == Cardinality({i \in 1..Len(s) : s[i].st = "ok"})

\* The words of self.hwords other than this_word, in order.
OtherWords == SelectSeq(hwords, LAMBDA w : w # this_word)

\* A divisor that counts the target word too.
DICDivisor_AllWords(M) == M

\* The divisor of 1 / (len(self.hwords)-1).
DICDivisor(M) == M - 1

\* dic = curr_score - (1 / (len(self.hwords)-1) * score_sum)
DICScore(curr_score, score_sum, M) ==
    Fin(curr_score * DICDivisor(M) - score_sum, DICDivisor(M))

\* "dic >= best_score": the last candidate wins a tie.
DICImproves_OrEqual(dic, best) == ~RLt(dic, best)

\* if dic > best_score
DICImproves(dic, best) == RGt(dic, best)

DICIter ==
    /\ op = "DIC" /\ pc = "loop"
    /\ number_of_states <= max_n_components
    /\ LET n == number_of_states
           current_model == base_model(n)
           M == Len(hwords)
       IN  \E a \in ScoreCall(current_model) :
           \E others \in (IF a.st = "ok" THEN AnswerRuns(Len(OtherWords))
                          ELSE {<<>>}) :
             LET exc == IF ScoreExc(current_model, a) # "none"
                           THEN ScoreExc(current_model, a)
                        ELSE IF RunFailed(others) THEN "ValueError"
                        ELSE IF DICDivisor(M) = 0 THEN "ZeroDivisionError"
                        ELSE "none"
                 dic == DICScore(a.v, SumOk(others), M)
             IN  /\ log' = [log EXCEPT ![n] = [self |-> a, more |-> others]]
                 /\ IF exc = "none"
                    THEN /\ pc' = "loop"
                         /\ IF DICImproves(dic, best_score)
                            THEN /\ best_score' = dic
                                 /\ best_model' = current_model
                            ELSE UNCHANGED <<best_score, best_model>>
                    ELSE /\ pc' = IF Catches(exc) THEN "loop" ELSE "raised"
                         /\ UNCHANGED <<best_score, best_model>>
    /\ number_of_states' = number_of_states + 1
    /\ UNCHANGED <<op, fitOK, min_n_components, max_n_components, n_constant,
                   lengths, hwords, this_word, average_score, result,
                   recognizerVars>>

\* ---------------------------------------------------------------- SelectorCV

\* KFold(): the default number of splits.
NSplits == 3

\* An average over the number of splits, whatever the folds scored.
CVAverage_OverSplits(current_score, count) == Fin(current_score, NSplits)

\* count = 1 if count == 0 else count; average_score = current_score / count
CVAverage(current_score, count) ==
    Fin(current_score, IF count = 0 THEN 1 ELSE count)

\* if average_score > best_score
CVImproves(average, best) == RGt(average, best)

\* The score() calls of the fold loop: none when KFold's split raises (fewer
\* sequences than splits) or when current_model is None.
FoldRuns(current_model) ==
    IF lengths < NSplits \/ current_model = None THEN {<<>>}
    ELSE AnswerRuns(NSplits)

CVIter ==
    /\ op = "CV" /\ pc = "loop"
    /\ number_of_states <= max_n_components
    /\ LET n == number_of_states
           current_model == base_model(n)
       IN  \E folds \in FoldRuns(current_model) :
             LET exc == IF lengths < NSplits THEN "ValueError"
                        ELSE IF current_model = None THEN "AttributeError"
                        ELSE IF RunFailed(folds) THEN "ValueError"
                        ELSE "none"
                 current_score == SumOk(folds)
                 count == CountOk(folds)
             IN  /\ log' = [log EXCEPT ![n] = [self |-> NotAsked, more |-> folds]]
                 /\ IF exc = "none" \/ Catches(exc)
                    THEN /\ pc' = "loop"
                         /\ average_score' = CVAverage(current_score, count)
                         /\ IF CVImproves(average_score', best_score)
                            THEN /\ best_model' = current_model
                                 /\ best_score' = average_score'
                            ELSE UNCHANGED <<best_score, best_model>>
                    ELSE /\ pc' = "raised"
                         /\ UNCHANGED <<best_score, best_model, average_score>>
    /\ number_of_states' = number_of_states + 1
    /\ UNCHANGED <<op, fitOK, min_n_components, max_n_components, n_constant,
                   lengths, hwords, this_word, result, recognizerVars>>

\* return best_model, once the range is exhausted.
SelectReturn ==
    /\ op \in {"BIC", "DIC", "CV"} /\ pc = "loop"
    /\ number_of_states > max_n_components
    /\ result' = best_model
    /\ pc' = "done"
    /\ UNCHANGED <<op, fitOK, min_n_components, max_n_components, n_constant,
                   lengths, hwords, this_word, number_of_states, best_model,
                   best_score, average_score, log, recognizerVars>>

\* ----------------------------------------------------------------- recognize

\* "all_scores = {w: current_score}": the earlier entries are lost.
SetDefault_Overwrites(all_scores, w, current_score) ==
    [x \in {w} |-> current_score]

\* all_scores.setdefault(w, current_score)
SetDefault(all_scores, w, current_score) ==
    [x \in DOMAIN all_scores \cup {w} |->
        IF x \in DOMAIN all_scores THEN all_scores[x] ELSE current_score]

\* "current_score >= best_score": the last word wins a tie.
RecImproves_OrEqual(current_score, best) ==
    ~RLt(Fin(current_score, 1), best)

\* if current_score > best_score
RecImproves(current_score, best) == RGt(Fin(current_score, 1), best)

\* The state of the loop over models.items() for one test item.
ItemStart ==
    [all_scores |-> [x \in {} |-> 0], best_score |-> NegInf, best_word |-> "",
     raised |-> FALSE]

\* One pass of the loop body, for word w with the Scorer's answer a.
ScoreWord(st, w, a) ==
    IF st.raised THEN st
    ELSE IF a.st = "fail"
    THEN [st EXCEPT !.raised = ~Catches("ValueError")]
    ELSE LET better == RecImproves(a.v, st.best_score)
         IN  [st EXCEPT
                 !.best_score = IF better THEN Fin(a.v, 1) ELSE @,
                 !.best_word = IF better THEN w ELSE @,
                 !.all_scores = SetDefault(@, w, a.v)]

\* The loop over models.items(), words k..Len(models), from state st.
RECURSIVE ScoreWords(_, _, _)
ScoreWords(st, k, ans) ==
    IF k > Len(models) THEN st
    ELSE ScoreWords(ScoreWord(st, models[k], ans[models[k]]), k + 1, ans)

\* "insert(0, ...)": the lists come out in reverse.
AppendOut_AtFront(list, x) == <<x>> \o list

\* probabilities.append(all_scores); guesses.append(best_word)
AppendOut(list, x) == Append(list, x)

\* The words of the mapping, as a set.
ModelWords == {models[k] : k \in 1..Len(models)}

RecognizeItem ==
    /\ op = "recognize" /\ pc = "loop"
    /\ Len(answers) < n_items
    /\ \E ans \in [ModelWords -> ScoreAnswers] :
         LET st == ScoreWords(ItemStart, 1, ans)
         IN  /\ answers' = Append(answers, ans)
             /\ IF st.raised
                THEN /\ pc' = "raised"
                     /\ UNCHANGED <<probabilities, guesses>>
                ELSE /\ pc' = "loop"
                     /\ probabilities' = AppendOut(probabilities, st.all_scores)
                     /\ guesses' = AppendOut(guesses, st.best_word)
    /\ UNCHANGED <<op, selectorVars, models, n_items>>

\* return probabilities, guesses
RecognizeReturn ==
    /\ op = "recognize" /\ pc = "loop"
    /\ Len(answers) = n_items
    /\ pc' = "done"
    /\ UNCHANGED <<op, selectorVars, recognizerVars>>

\* ---------------------------------------------------------------- the runs

NoLog == [n \in Complexities |-> [self |-> NotAsked, more |-> <<>>]]

\* Words 1..m of the dictionary order.
FirstWords(m) == SubSeq(WordNames, 1, m)

\* A selector object after __init__, about to run select(). n_constant is read
\* by SelectorConstant only, len(self.lengths) by SelectorBIC and SelectorCV
\* only, self.hwords by SelectorDIC only: elsewhere they are left at a default.
\* this_word is the first word of the map: the loop over the other words only
\* sums their scores, so the place of the target among the keys is immaterial.
InitSelector ==
    /\ op \in {"Constant", "BIC", "DIC", "CV"}
    /\ fitOK \in SUBSET Complexities
    /\ min_n_components \in Complexities
    /\ max_n_components \in Complexities
    /\ n_constant \in (IF op = "Constant" THEN Complexities ELSE {3})
    /\ lengths \in (IF op \in {"BIC", "CV"} THEN 1..MaxD ELSE {1})
    /\ hwords \in (IF op = "DIC" THEN {FirstWords(m) : m \in 1..MaxWords}
                   ELSE {FirstWords(1)})
    /\ this_word = hwords[1]
    /\ best_score = (IF op = "BIC" THEN PosInf ELSE NegInf)
    /\ models = <<>> /\ n_items = 0

\* recognize(models, test_set) on entry.
InitRecognize ==
    /\ op = "recognize"
    /\ fitOK = {} /\ min_n_components = MinN /\ max_n_components = MinN
    /\ n_constant = 3 /\ lengths = 1 /\ hwords = FirstWords(1)
    /\ this_word = hwords[1]
    /\ best_score = NegInf
    /\ models \in {FirstWords(m) : m \in 0..MaxModels}
    /\ n_items \in 0..MaxItems

Init ==
    /\ pc = "loop"
    /\ best_model = None
    /\ average_score = Fin(0, 1)
    /\ log = NoLog
    /\ result = None
    /\ answers = <<>> /\ probabilities = <<>> /\ guesses = <<>>
    /\ (InitSelector \/ InitRecognize)
    /\ number_of_states = min_n_components

Next ==
    \/ ConstantSelect
    \/ BICIter
    \/ DICIter
    \/ CVIter
    \/ SelectReturn
    \/ RecognizeItem
    \/ RecognizeReturn

Spec == Init /\ [][Next]_vars

\* ------------------------------------------------------------- properties

\* The complexities select() iterates over.
Range == min_n_components..max_n_components

Returned(o) == op = o /\ pc = "done"

\* a = b as numbers (2/2 = 1/1).
REq(a, b) == ~RLt(a, b) /\ ~RLt(b, a)

\* The fits select() asked for failed, for every complexity of the range.
AllFitsFail == Range \cap fitOK = {}

\* C1 as stated: every selector returns None when fitting fails for every
\* complexity of [min_n_components, max_n_components].
C1_AllFail_EverySelector ==
    (pc = "done" /\ op \in {"Constant", "BIC", "DIC", "CV"} /\ AllFitsFail)
        => result = None

\* C1 amended: SelectorBIC, SelectorDIC and SelectorCV return None when
\* fitting fails for every complexity of the range; SelectorConstant returns
\* None when fitting fails for n_constant, whatever the range.
C1_AllFail_Amended ==
    /\ (pc = "done" /\ op \in {"BIC", "DIC", "CV"} /\ AllFitsFail)
          => result = None
    /\ (Returned("Constant") /\ n_constant \notin fitOK) => result = None

\* Every complexity of a range of two or more failed to fit, and SelectorCV
\* returned None.
C1_Witness ==
    /\ Returned("CV") /\ Cardinality(Range) >= 2 /\ AllFitsFail
    /\ lengths >= NSplits /\ result = None

\* The first complexity of the set S that is best under the order better
\* (a strict order on the criterion crit), as a set: empty when S is.
FirstBest(S, crit(_), better(_, _)) ==
    { n \in S : \A m \in S : /\ ~better(crit(m), crit(n))
                            /\ (m < n => better(crit(n), crit(m))) }

\* SelectorBIC: the complexities fitted and scored, and the BIC of each from
\* the log-likelihood the Scorer answered.
BICCandidates == { n \in Range \cap fitOK : log[n].self.st = "ok" }
BICOf(n) ==
    Fin(-2000 * log[n].self.v
          + (n * n + 2 * n * lengths - 1) * LnMilli(lengths), 1000)

\* C2: SelectorBIC returns the model of the smallest complexity of minimal BIC
\* among the complexities fitted and scored, and None when there is none.
C2_BICReturnsFirstMinimum ==
    Returned("BIC") =>
        IF BICCandidates = {} THEN result = None
        ELSE result \in { Model(n) : n \in FirstBest(BICCandidates, BICOf, RLt) }

\* Complexity 2 scored, 3 scored with a strictly smaller BIC, 4 failed: the
\* model of 3 is returned.
C2_Witness ==
    /\ Returned("BIC") /\ Range = 2..4
    /\ {2, 3} \subseteq BICCandidates /\ 4 \notin BICCandidates
    /\ RLt(BICOf(3), BICOf(2))
    /\ result = Model(3)

\* SelectorDIC: the complexities for which the fit, the self-score and the
\* score against every other word succeeded, with two or more words in the
\* map (with one word no DIC is computed: see C10).
DICCandidates ==
    { n \in Range \cap fitOK :
        /\ log[n].self.st = "ok"
        /\ Len(hwords) >= 2
        /\ Len(log[n].more) = Len(hwords) - 1
        /\ \A i \in 1..Len(log[n].more) : log[n].more[i].st = "ok" }
DICOf(n) ==
    Fin(log[n].self.v * (Len(hwords) - 1) - SumOk(log[n].more),
        Len(hwords) - 1)

CVScored(n) == { i \in 1..Len(log[n].more) : log[n].more[i].st = "ok" }
CVOf(n) ==
    IF CVScored(n) = {} THEN Fin(0, 1)
    ELSE Fin(SumOk(log[n].more), Cardinality(CVScored(n)))

\* C4 as stated: when some complexity of the range fits, SelectorCV returns
\* the first fitted model of maximal average; a failed fit is no candidate.
C4_CVReturnsFittedModel ==
    (Returned("CV") /\ Range \cap fitOK # {}) =>
        result \in { Model(n) : n \in FirstBest(Range \cap fitOK, CVOf, RGt) }

\* C5: the two lists have one entry per test item done, are aligned (the
\* guess at a position is a word of maximal score of the distribution at that
\* position, or empty), and follow the order of the items (the distribution
\* at position k has the words the Scorer scored for item k).
C5_ListsAlignedInItemOrder ==
    (op = "recognize" /\ pc # "raised") =>
        /\ Len(probabilities) = Len(answers)
        /\ Len(guesses) = Len(answers)
        /\ pc = "done" => Len(probabilities) = n_items
        /\ \A k \in 1..Len(answers) :
             /\ DOMAIN probabilities[k]
                  = { w \in ModelWords : answers[k][w].st = "ok" }
             /\ IF DOMAIN probabilities[k] = {} THEN guesses[k] = ""
                ELSE /\ guesses[k] \in DOMAIN probabilities[k]
                     /\ \A w \in DOMAIN probabilities[k] :
                          probabilities[k][w] <= probabilities[k][guesses[k]]

\* Two items with different scored words, returned in the order of the items.
C5_Witness ==
    /\ Returned("recognize") /\ n_items = 2 /\ Len(models) = 2
    /\ answers[1]["CAT"].st = "ok" /\ answers[1]["DOG"].st = "fail"
    /\ answers[2]["CAT"].st = "fail" /\ answers[2]["DOG"].st = "ok"
    /\ guesses = <<"CAT", "DOG">>

\* The positions, in models, of the words the Scorer scored for item k.
ScoredAt(k) == { j \in 1..Len(models) : answers[k][models[j]].st = "ok" }

\* C6: the guess of an item is the first word, in the order of models, of
\* maximal score among the words scored; it is empty exactly when no word was
\* scored.
C6_GuessIsFirstMaximum ==
    (op = "recognize" /\ pc # "raised") =>
        \A k \in 1..Len(guesses) :
            /\ guesses[k] = "" <=> ScoredAt(k) = {}
            /\ ScoredAt(k) # {} =>
                 \E j \in ScoredAt(k) :
                    /\ guesses[k] = models[j]
                    /\ \A i \in ScoredAt(k) :
                         /\ answers[k][models[i]].v <= answers[k][models[j]].v
                         /\ i < j => answers[k][models[i]].v
                                        < answers[k][models[j]].v

\* CAT scores lower than DOG for one item and ties with it for another.
C6_Witness ==
    /\ Returned("recognize") /\ n_items = 2 /\ Len(models) = 2
    /\ answers[1] = [w \in ModelWords |-> IF w = "CAT" THEN Ok(-3) ELSE Ok(3)]
    /\ answers[2] = [w \in ModelWords |-> Ok(3)]
    /\ guesses = <<"DOG", "CAT">>

\* C7: no exception leaves select() or recognize(): the run is never in the
\* raised state, it can always take a step until it has returned, and what it
\* returns is a model of a complexity asked for or None (select) or the two
\* lists (recognize).
C7_NothingPropagates ==
    /\ pc \in {"loop", "done"}
    /\ pc = "done" \/ ENABLED Next
    /\ (pc = "done" /\ op # "recognize") =>
          result \in {None} \cup { Model(n) : n \in Range \cup {n_constant} }
    /\ Returned("recognize") =>
          Len(probabilities) = n_items /\ Len(guesses) = n_items

\* A run of SelectorDIC that met a failed fit, a failed self-score, a failed
\* score against another word, and returned.
C7_Witness ==
    /\ Returned("DIC") /\ Range = 2..4 /\ fitOK = {3, 4}
    /\ log[3].self.st = "fail"
    /\ log[4].self.st = "ok" /\ RunFailed(log[4].more)

\* C8: after SelectorCV has dealt with a complexity, its average is the sum
\* of the folds scored before any failure over their number, and 0 when no
\* fold was scored.
C8_CVAverage ==
    (op = "CV" /\ pc = "loop" /\ number_of_states > min_n_components) =>
        LET n == number_of_states - 1
            run == log[n].more
        IN  /\ CVScored(n) = 1..Cardinality(CVScored(n))
            /\ IF CVScored(n) = {}
               THEN average_score = Fin(0, 1)
               ELSE average_score.k = "fin"
                    /\ average_score.num * Cardinality(CVScored(n))
                         = SumOk(SubSeq(run, 1, Cardinality(CVScored(n))))
                             * average_score.den

\* Two folds scored -3 and 3, the third failed: the average is 0 over 2.
C8_Witness ==
    /\ op = "CV" /\ pc = "loop" /\ number_of_states = min_n_components + 1
    /\ log[min_n_components].more = <<Ok(-3), Ok(3), ScoreFailure>>
    /\ average_score = Fin(0, 2)

\* C9: the distribution of an item has one entry for each word the Scorer
\* scored for that item, holding that score, and none for any other word.
C9_DistributionHoldsScoredWords ==
    (op = "recognize" /\ pc # "raised") =>
        \A k \in 1..Len(probabilities) :
            /\ DOMAIN probabilities[k] \subseteq ModelWords
            /\ \A w \in ModelWords :
                 IF answers[k][w].st = "ok"
                 THEN w \in DOMAIN probabilities[k]
                      /\ probabilities[k][w] = answers[k][w].v
                 ELSE w \notin DOMAIN probabilities[k]

\* Scoring CAT fails for the first item only: DOG keeps its entry there, and
\* the second item has both entries.
C9_Witness ==
    /\ Returned("recognize") /\ n_items = 2 /\ Len(models) = 2
    /\ answers[1]["CAT"].st = "fail"
    /\ DOMAIN probabilities[1] = {"DOG"} /\ probabilities[1]["DOG"] = -3
    /\ DOMAIN probabilities[2] = {"CAT", "DOG"}
    /\ guesses[1] = "DOG"

\* C10: with the target word alone in the word map, SelectorDIC returns None.
C10_DICSingleWordReturnsNone ==
    (Returned("DIC") /\ Len(hwords) = 1) => result = None

\* Every complexity of 2..4 fitted and scored, one word in the map, None
\* returned.
C10_Witness ==
    /\ Returned("DIC") /\ Len(hwords) = 1 /\ Range = 2..4
    /\ \A n \in Range : n \in fitOK /\ log[n].self.st = "ok"
    /\ result = None

====
